---- MODULE Spec2Model ----
(***************************************************************************)
(* Model of examples/openwebui_integration.py: the MLNotesAPI client       *)
(* (transport client _make_request, the facade operations and the          *)
(* auto-tag orchestrator auto_tag_notes) talking to the ml-notes HTTP      *)
(* service.  Strings that the code builds (URLs, error messages) are       *)
(* sequences of tokens, so that joining and formatting are computed.       *)
(***************************************************************************)
EXTENDS Integers, Sequences, FiniteSets, TLC

\* ---------------------------------------------------------------- bounds
MaxNotes == 2
MaxSlashes == 2
MaxRecent == 1
MaxIds == 1

\* ------------------------------------------------------------- constants
RequestTimeout == 30

VARIABLES configured, base_url, notes, op, args, sent, wire, result

vars == <<configured, base_url, notes, op, args, sent, wire, result>>

\* ------------------------------------------------------- string helpers
Slashes(k) == [i \in 1..k |-> "/"]

RECURSIVE rstrip(_)
rstrip(s) ==
  IF Len(s) > 0 /\ s[Len(s)] = "/" THEN rstrip(SubSeq(s, 1, Len(s) - 1)) ELSE s

Range(s) == {s[i] : i \in 1..Len(s)}

\* ML_NOTES_BASE_URL, "http://localhost:8080/api/v1", cut at its slashes
ML_NOTES_BASE_URL == <<"http://localhost:8080", "/", "api", "/", "v1">>

\* ------------------------------------------------------------ JSON values
Tags == {"user", "ai"}
NoData == [id |-> 0, tags |-> {}]
NoJson == <<>>
NoParams == <<>>
NoError == <<>>

Json(success, data, error) == [success |-> success, data |-> data, error |-> error]
OkJson(data) == Json(TRUE, data, NoError)
ErrJson(msg) == Json(FALSE, NoData, msg)

\* what a call hands back to its caller: a returned value or an exception
Returned(value) == [raised |-> "", value |-> value]
Raised(exc) == [raised |-> exc, value |-> ErrJson(NoError)]

\* ------------------------------------------------- the remote service
NoteIds == 1..MaxNotes
SuggestedTags == {"ai"}
NoFault == <<>>
NotFound == <<"note not found">>
SelectionMessage == <<"Must specify notes to tag">>
\* a domain error the service may reject an auto-tag request with; the
\* wording is the service's and may be the client's own
RemoteFaults == {SelectionMessage}

Exists(store, n) == n \in 1..store.count

NoteData(store, n) == [id |-> n, tags |-> store.tags[n]]

\* the notes a POST /auto-tag/apply payload selects
Selected(store, json) ==
  IF "all" \in DOMAIN json THEN 1..store.count
  ELSE IF "recent" \in DOMAIN json
       THEN {n \in 1..store.count : n > store.count - json.recent}
  ELSE IF "note_ids" \in DOMAIN json
       THEN {n \in Range(json.note_ids) : Exists(store, n)}
  ELSE {}

ApplyTags(store, json) ==
  IF "apply" \in DOMAIN json /\ json.apply
  THEN [store EXCEPT !.tags =
          [n \in NoteIds |->
             IF n \in Selected(store, json)
             THEN IF json.overwrite THEN SuggestedTags
                  ELSE store.tags[n] \cup SuggestedTags
             ELSE store.tags[n]]]
  ELSE store

TagsOfString(s) == IF s = "" THEN {} ELSE {s}

CreateIn(store, json) ==
  [count |-> store.count + 1,
   tags |-> [store.tags EXCEPT ![store.count + 1] =
               TagsOfString(json.tags)
               \cup (IF json.auto_tag THEN SuggestedTags ELSE {})]]

IdOf(token) ==
  IF \E n \in NoteIds : ToString(n) = token
  THEN CHOOSE n \in NoteIds : ToString(n) = token
  ELSE 0

Path(url) ==
  IF Len(url) >= Len(ML_NOTES_BASE_URL)
     /\ SubSeq(url, 1, Len(ML_NOTES_BASE_URL)) = ML_NOTES_BASE_URL
  THEN SubSeq(url, Len(ML_NOTES_BASE_URL) + 1, Len(url))
  ELSE <<"?">>

Served(store, reply) == [notes |-> store, reply |-> reply]

\* the service's handler for one delivered request; fault is a domain
\* error the service chooses to answer with instead of serving
RemoteServe(store, req, fault) ==
  LET p == Path(req.url) IN
  IF fault # NoFault THEN Served(store, ErrJson(fault))
  ELSE IF req.method = "GET" /\ p = <<"/", "health">> THEN Served(store, OkJson(NoData))
  ELSE IF req.method = "GET" /\ p = <<"/", "stats">> THEN Served(store, OkJson(NoData))
  ELSE IF req.method = "GET" /\ p = <<"/", "notes">> THEN Served(store, OkJson(NoData))
  ELSE IF req.method = "POST" /\ p = <<"/", "notes", "/", "search">>
       THEN Served(store, OkJson(NoData))
  ELSE IF req.method = "POST" /\ p = <<"/", "notes">>
       THEN IF store.count < MaxNotes
            THEN Served(CreateIn(store, req.json),
                        OkJson(NoteData(CreateIn(store, req.json), store.count + 1)))
            ELSE Served(store, ErrJson(<<"storage full">>))
  ELSE IF req.method = "GET" /\ Len(p) = 4 /\ SubSeq(p, 1, 3) = <<"/", "notes", "/">>
       THEN IF Exists(store, IdOf(p[4]))
            THEN Served(store, OkJson(NoteData(store, IdOf(p[4]))))
            ELSE Served(store, ErrJson(NotFound))
  ELSE IF req.method = "POST" /\ Len(p) = 6
          /\ SubSeq(p, 1, 5) = <<"/", "auto-tag", "/", "suggest", "/">>
       THEN IF Exists(store, IdOf(p[6]))
            THEN Served(store, OkJson([id |-> IdOf(p[6]), tags |-> SuggestedTags]))
            ELSE Served(store, ErrJson(NotFound))
  ELSE IF req.method = "POST" /\ p = <<"/", "auto-tag", "/", "apply">>
       THEN Served(ApplyTags(store, req.json), OkJson(NoData))
  ELSE Served(store, ErrJson(<<"no such route">>))

\* ------------------------------------------------------- the transport
Statuses == {200, 300, 404, 500}
Unparsable == {"garbage", "deep"}

NoWire == [kind |-> "none", delivered |-> FALSE, status |-> 0, body |-> "", fault |-> NoFault]

\* what can happen to one request: the connection is refused, the read
\* times out after the service got the request, or a response comes back
\* with a status and a body (the service's JSON answer, or bytes no JSON
\* parser accepts)
Wires ==
  {[kind |-> "refused", delivered |-> FALSE, status |-> 0, body |-> "", fault |-> NoFault],
   [kind |-> "timeout", delivered |-> TRUE, status |-> 0, body |-> "", fault |-> NoFault]}
  \cup {[kind |-> "response", delivered |-> TRUE, status |-> s, body |-> "json", fault |-> NoFault]
          : s \in Statuses}
  \cup {[kind |-> "response", delivered |-> TRUE, status |-> 200, body |-> b, fault |-> NoFault]
          : b \in Unparsable}

\* an auto-tag request may also be rejected by the service with a domain
\* error of its own
AutoTagWires ==
  Wires
  \cup {[kind |-> "response", delivered |-> TRUE, status |-> s, body |-> "json", fault |-> f]
          : s \in Statuses, f \in RemoteFaults}

\* str(e) of the exceptions requests raises
StrConnectionError(url) == <<"Connection refused:">> \o url
StrTimeout == <<"Read timed out. (read timeout=", ToString(RequestTimeout), ")">>
StrHTTPError(status, url) ==
  <<ToString(status), IF status < 500 THEN "Client Error" ELSE "Server Error", "for url:">> \o url
StrJSONDecodeError == <<"Expecting value: line 1 column 1 (char 0)">>

RaisesForStatus_non2xx(status) == status < 200 \/ status > 299

\* response.raise_for_status(): raises HTTPError for 4xx and 5xx only
RaisesForStatus(status) == 400 <= status /\ status < 600

Failure(msg) == Returned(ErrJson(msg))

\* response.json(): the parsed body; an unparsable body raises
\* requests.exceptions.JSONDecodeError (a RequestException, caught at
\* line 38), a body nested beyond the parser's depth raises RecursionError
\* (not a RequestException, propagates)
ResponseJson(body, reply) ==
  IF body = "json" THEN Returned(reply)
  ELSE IF body = "garbage" THEN Failure(StrJSONDecodeError)
  ELSE Raised("RecursionError")

Request(method, url, json, params) ==
  [method |-> method, url |-> url, json |-> json, params |-> params,
   timeout |-> RequestTimeout]

JoinUrl(base, endpoint) == base \o endpoint

Attempts_retry(req, w) == IF w.kind = "response" THEN <<req>> ELSE <<req, req>>

\* requests.request is called once per _make_request
Attempts(req, w) == <<req>>

make_request(base, method, endpoint, json, params, store, w) ==
  LET url == JoinUrl(base, endpoint)
      req == Request(method, url, json, params)
      served == IF w.delivered THEN RemoteServe(store, req, w.fault)
                ELSE Served(store, ErrJson(NoError))
      res == IF w.kind = "refused" THEN Failure(StrConnectionError(url))
             ELSE IF w.kind = "timeout" THEN Failure(StrTimeout)
             ELSE IF RaisesForStatus(w.status) THEN Failure(StrHTTPError(w.status, url))
             ELSE ResponseJson(w.body, served.reply)
  IN [sent |-> Attempts(req, w), result |-> res, notes |-> served.notes]

Local(res) == [sent |-> <<>>, result |-> res, notes |-> notes]

\* ------------------------------------------------------ MLNotesAPI
init_base_url_once(raw) ==
  IF Len(raw) > 0 /\ raw[Len(raw)] = "/" THEN SubSeq(raw, 1, Len(raw) - 1) ELSE raw

\* __init__: the configured base URL loses its trailing slashes
init_base_url(raw) == rstrip(raw)

ConfiguredUrls == {ML_NOTES_BASE_URL \o Slashes(k) : k \in 0..MaxSlashes}

EmptyStore == [count |-> 0, tags |-> [n \in NoteIds |-> {}]]

NoArgs == <<>>

\* ml_notes = MLNotesAPI(): the client every operation goes through
Init ==
  /\ configured = ML_NOTES_BASE_URL
  /\ base_url = init_base_url(configured)
  /\ notes = EmptyStore
  /\ op = "idle"
  /\ args = NoArgs
  /\ sent = <<>>
  /\ wire = NoWire
  /\ result = Returned(OkJson(NoData))

\* the caller is done with a result: results are request-scoped values,
\* nothing of a call is kept in the client
Return ==
  /\ op # "idle"
  /\ op' = "idle"
  /\ args' = NoArgs
  /\ sent' = <<>>
  /\ wire' = NoWire
  /\ result' = Returned(OkJson(NoData))
  /\ UNCHANGED <<configured, base_url, notes>>

\* one call at a time: the client is synchronous
Idle == op = "idle"

\* an operation runs from call to return: what it sent, what it handed
\* back, and what the service holds afterwards
Finish(name, a, w, r) ==
  /\ op' = name
  /\ args' = a
  /\ wire' = w
  /\ sent' = r.sent
  /\ result' = r.result
  /\ notes' = r.notes
  /\ UNCHANGED <<configured, base_url>>

health_check ==
  /\ Idle
  /\ \E w \in Wires :
      Finish("health_check", NoArgs, w,
             make_request(base_url, "GET", <<"/", "health">>, NoJson, NoParams, notes, w))

Queries == {"python"}
Limits == {5}

search_notes ==
  /\ Idle
  /\ \E q \in Queries, l \in Limits, v \in BOOLEAN, w \in Wires :
      Finish("search_notes", [query |-> q, limit |-> l, use_vector |-> v], w,
             make_request(base_url, "POST", <<"/", "notes", "/", "search">>,
                          [query |-> q, limit |-> l, use_vector |-> v], NoParams, notes, w))

TagStrings == {"", "user"}

create_note ==
  /\ Idle
  /\ notes.count < MaxNotes
  /\ \E t \in TagStrings, a \in BOOLEAN, w \in Wires :
       Finish("create_note", [tags |-> t, auto_tag |-> a], w,
              make_request(base_url, "POST", <<"/", "notes">>,
                           [title |-> "Test", content |-> "Hello world",
                            tags |-> t, auto_tag |-> a], NoParams, notes, w))

\* ids a caller may name: those the service can hold and one it never holds
IdInputs == 1..(MaxNotes + 1)

get_note_endpoint_first(note_id) == <<"/", "notes", "/", ToString(1)>>

get_note_endpoint(note_id) == <<"/", "notes", "/", ToString(note_id)>>

get_note ==
  /\ Idle
  /\ \E n \in IdInputs, w \in Wires :
      Finish("get_note", [note_id |-> n], w,
             make_request(base_url, "GET", get_note_endpoint(n), NoJson, NoParams, notes, w))

list_notes ==
  /\ Idle
  /\ \E w \in Wires :
      Finish("list_notes", [limit |-> 10, offset |-> 0], w,
             make_request(base_url, "GET", <<"/", "notes">>, NoJson,
                          [limit |-> 10, offset |-> 0], notes, w))

suggest_tags ==
  /\ Idle
  /\ \E n \in IdInputs, w \in Wires :
      Finish("suggest_tags", [note_id |-> n], w,
             make_request(base_url, "POST",
                          <<"/", "auto-tag", "/", "suggest", "/", ToString(n)>>,
                          NoJson, NoParams, notes, w))

get_stats ==
  /\ Idle
  /\ \E w \in Wires :
      Finish("get_stats", NoArgs, w,
             make_request(base_url, "GET", <<"/", "stats">>, NoJson, NoParams, notes, w))

\* ------------------------------------------------------ auto_tag_notes
IdLists == UNION {[1..k -> IdInputs] : k \in 0..MaxIds}
\* note_ids is None (not given) or a list
NoteIdsInputs == {[given |-> FALSE, ids |-> <<>>]} \cup {[given |-> TRUE, ids |-> l] : l \in IdLists}
RecentInputs == -1..MaxRecent
\* what the caller wants for overwrite: the method has no such parameter,
\* so anything but "unset" is an unexpected keyword argument
OverwriteInputs == {"unset", "False", "True"}

Truthy(note_ids) == note_ids.given /\ Len(note_ids.ids) > 0

auto_tag_data_commit(apply) == [apply |-> TRUE, overwrite |-> FALSE]

auto_tag_data_overwrite(apply) == [apply |-> apply, overwrite |-> TRUE]

auto_tag_data(apply) == [apply |-> apply, overwrite |-> FALSE]

SelectionError == Returned(ErrJson(SelectionMessage))

select_if(data, note_ids, all_notes, recent) ==
  LET a == IF all_notes THEN data @@ ("all" :> TRUE) ELSE data
      b == IF recent > 0 THEN a @@ ("recent" :> recent) ELSE a
      c == IF Truthy(note_ids) THEN b @@ ("note_ids" :> note_ids.ids) ELSE b
  IN IF c = data THEN <<>> ELSE c

\* the if/elif chain: the payload to send, or <<>> when nothing is selected
select(data, note_ids, all_notes, recent) ==
  IF all_notes THEN data @@ ("all" :> TRUE)
  ELSE IF recent > 0 THEN data @@ ("recent" :> recent)
  ELSE IF Truthy(note_ids) THEN data @@ ("note_ids" :> note_ids.ids)
  ELSE <<>>

auto_tag_call(note_ids, all_notes, recent, apply, w) ==
  LET data == select(auto_tag_data(apply), note_ids, all_notes, recent) IN
  IF data = <<>> THEN Local(SelectionError)
  ELSE make_request(base_url, "POST", <<"/", "auto-tag", "/", "apply">>,
                    data, NoParams, notes, w)

AutoTagArgs(i, a, r, ap, ow) ==
  [note_ids |-> i, all_notes |-> a, recent |-> r, apply |-> ap, overwrite |-> ow]

NoSelection(a) == ~a.all_notes /\ ~(a.recent > 0) /\ ~Truthy(a.note_ids)

auto_tag_notes ==
  /\ Idle
  /\ \E i \in NoteIdsInputs, a \in BOOLEAN, r \in RecentInputs, ap \in BOOLEAN :
      \/ \E w \in AutoTagWires :
           /\ ~NoSelection(AutoTagArgs(i, a, r, ap, "unset"))
           /\ Finish("auto_tag_notes", AutoTagArgs(i, a, r, ap, "unset"), w,
                     auto_tag_call(i, a, r, ap, w))
      \/ /\ NoSelection(AutoTagArgs(i, a, r, ap, "unset"))
         /\ Finish("auto_tag_notes", AutoTagArgs(i, a, r, ap, "unset"), NoWire,
                   auto_tag_call(i, a, r, ap, NoWire))
      \/ \E ow \in OverwriteInputs \ {"unset"} :
           Finish("auto_tag_notes", AutoTagArgs(i, a, r, ap, ow), NoWire,
                  Local(Raised("TypeError")))

\* ------------------------------------------------------ the environment
\* another client of the service edits a note's tags
RemoteEdit ==
  /\ Idle
  /\ \E n \in NoteIds, t \in SUBSET Tags :
    /\ Exists(notes, n)
    /\ t # notes.tags[n]
    /\ notes' = [notes EXCEPT !.tags[n] = t]
    /\ UNCHANGED <<configured, base_url, op, args, sent, wire, result>>

Next ==
  \/ health_check
  \/ search_notes
  \/ create_note
  \/ get_note
  \/ list_notes
  \/ suggest_tags
  \/ auto_tag_notes
  \/ get_stats
  \/ Return
  \/ RemoteEdit

Spec == Init /\ [][Next]_vars

\* ------------------------------------------- the transport client alone
\* MLNotesAPI(base_url) for any configured base URL, and direct calls of
\* _make_request with any method and endpoint
InitClient ==
  /\ configured \in ConfiguredUrls
  /\ base_url = init_base_url(configured)
  /\ notes = EmptyStore
  /\ op = "idle"
  /\ args = NoArgs
  /\ sent = <<>>
  /\ wire = NoWire
  /\ result = Returned(OkJson(NoData))

Methods == {"GET", "POST"}
Endpoints == {Slashes(k) \o <<"health">> : k \in 0..MaxSlashes}

MakeRequest ==
  /\ Idle
  /\ \E m \in Methods, e \in Endpoints, w \in Wires :
      Finish("_make_request", [method |-> m, endpoint |-> e], w,
             make_request(base_url, m, e, NoJson, NoParams, notes, w))

NextClient == MakeRequest \/ Return

SpecClient == InitClient /\ [][NextClient]_vars

\* ================================================================ claims
FacadeOps == {"health_check", "search_notes", "create_note", "get_note",
              "list_notes", "suggest_tags", "get_stats"}
SelectionKeys == {"all", "recent", "note_ids"}

AutoTagged == op = "auto_tag_notes" /\ args.overwrite = "unset"
ValidAutoTag == AutoTagged /\ ~NoSelection(args)
Payloads == {sent[i].json : i \in 1..Len(sent)}

ModeOf(a) ==
  IF a.all_notes THEN "all" ELSE IF a.recent > 0 THEN "recent" ELSE "note_ids"

\* C1: an auto-tag request with some selection field set sends a payload
\* that carries exactly one of the keys all / recent / note_ids, the one of
\* highest priority All > Recent > ByIds among those the caller set, with
\* the caller's value.
C1_SelectionPriority ==
  ValidAutoTag =>
    /\ sent # <<>>
    /\ \A d \in Payloads :
         /\ DOMAIN d \cap SelectionKeys = {ModeOf(args)}
         /\ ModeOf(args) = "all" => d.all = TRUE
         /\ ModeOf(args) = "recent" => d.recent = args.recent
         /\ ModeOf(args) = "note_ids" => d.note_ids = args.note_ids.ids

C1_Witness ==
  /\ ValidAutoTag
  /\ args.all_notes /\ args.recent > 0 /\ Truthy(args.note_ids)
  /\ Len(sent) = 1
  /\ DOMAIN sent[1].json \cap SelectionKeys = {"all"}

\* C2: an auto-tag request with no selection field set returns the
\* selection error and sends nothing; and an auto-tag request that returns
\* the selection error has sent nothing.
C2_SelectionErrorNoCalls ==
  /\ (AutoTagged /\ NoSelection(args)) => (result = SelectionError /\ sent = <<>>)
  /\ (AutoTagged /\ result = SelectionError) => sent = <<>>

TransportFailure(w) ==
  \/ w.kind \in {"refused", "timeout"}
  \/ w.kind = "response" /\ (w.status < 200 \/ w.status > 299 \/ w.body # "json")

\* C3: after a transport-level failure (connection refused, timeout,
\* non-2xx status, unparsable body) _make_request has not raised: it has
\* returned success false with a non-empty error string.
C3_NeverRaises ==
  (op = "_make_request" /\ TransportFailure(wire)) =>
    /\ result.raised = ""
    /\ result.value.success = FALSE
    /\ Len(result.value.error) > 0

\* C4 (as stated): every valid auto-tag request sends a payload whose
\* overwrite field is the caller's overwrite input (false when not given).
C4_OverwriteForwarded ==
  (op = "auto_tag_notes" /\ ~NoSelection(args)) =>
    /\ sent # <<>>
    /\ \A d \in Payloads : d.overwrite = (args.overwrite = "True")

\* C4 (amended): auto_tag_notes takes no overwrite input: a call that passes
\* one raises TypeError and sends nothing, and the overwrite field of every
\* payload sent to POST /auto-tag/apply is false.
C4_OverwriteAlwaysFalse ==
  op = "auto_tag_notes" =>
    /\ args.overwrite # "unset" => (result.raised = "TypeError" /\ sent = <<>>)
    /\ ValidAutoTag => sent # <<>>
    /\ \A d \in Payloads : d.overwrite = FALSE

C4_Witness ==
  /\ ValidAutoTag /\ args.apply
  /\ Len(sent) = 1
  /\ sent[1].json.overwrite = FALSE

\* C5: every facade operation and every auto-tag request with a valid
\* selection issues exactly one HTTP request, whatever the outcome.
C5_OneRequest ==
  (op \in FacadeOps \/ ValidAutoTag) => Len(sent) = 1

C5_Witness ==
  /\ op = "get_note"
  /\ wire.kind = "timeout"
  /\ Len(sent) = 1
  /\ result.value.success = FALSE

SeparatedByOneSlash(url) ==
  url = ML_NOTES_BASE_URL \o <<"/", "health">>

\* C6 (as stated): the URL requested is base URL and path joined with
\* exactly one slash, whatever the trailing slashes of the configured base
\* URL and the leading slashes of the path.
C6_OneSlash ==
  op = "_make_request" => \A i \in 1..Len(sent) : SeparatedByOneSlash(sent[i].url)

RECURSIVE WithoutLeadingSlashes(_)
WithoutLeadingSlashes(s) ==
  IF Len(s) > 0 /\ s[1] = "/" THEN WithoutLeadingSlashes(Tail(s)) ELSE s

LeadingSlashes(e) == Len(e) - Len(WithoutLeadingSlashes(e))

\* C6 (amended): the URL requested is the configured base URL without its
\* trailing slashes followed by the path as given: exactly one separating
\* slash for every number of trailing slashes on the base URL when the
\* path starts with exactly one slash, as many slashes as the path starts
\* with otherwise.
C6_OneSlashForRootedPath ==
  op = "_make_request" =>
    /\ sent # <<>>
    /\ \A i \in 1..Len(sent) :
         /\ sent[i].url = ML_NOTES_BASE_URL \o args.endpoint
         /\ LeadingSlashes(args.endpoint) = 1 => SeparatedByOneSlash(sent[i].url)

C6_Witness ==
  /\ op = "_make_request"
  /\ configured = ML_NOTES_BASE_URL \o <<"/", "/">>
  /\ args.endpoint = <<"/", "health">>
  /\ Len(sent) = 1
  /\ SeparatedByOneSlash(sent[1].url)

\* C7: the result of auto_tag_notes after a network call is never the
\* result it returns when no selection is given.
C7_Distinguishable ==
  (AutoTagged /\ sent # <<>>) => result # SelectionError

\* C8: every payload's apply field is the caller's apply input, and a step
\* that is a suggest_tags call or an auto-tag request with apply=false
\* leaves every remote note as it was.
C8_PreviewNeverCommits ==
  /\ [](AutoTagged => \A d \in Payloads : d.apply = args.apply)
  /\ [][(op' = "suggest_tags" \/ (op' = "auto_tag_notes" /\ args'.apply = FALSE))
          => notes' = notes]_vars

C8_Witness ==
  /\ ValidAutoTag /\ ~args.apply /\ args.all_notes
  /\ wire.kind = "response" /\ wire.status = 200 /\ wire.body = "json"
  /\ wire.fault = NoFault
  /\ Len(sent) = 1 /\ sent[1].json.apply = FALSE
  /\ notes.count = 2 /\ notes.tags[1] = {} /\ notes.tags[2] = {"user"}

Answered == wire.kind = "response" /\ wire.body = "json" /\ wire.status < 400

\* C9: a get_note(id) whose round trip completes returns what the service
\* holds for that note at that moment, whatever was done through the
\* client before; the call changes neither the service nor the client.
C9_FreshRead ==
  /\ []((op = "get_note" /\ Answered /\ wire.fault = NoFault) =>
          /\ Len(sent) = 1
          /\ result = Returned(IF args.note_id \in 1..notes.count
                               THEN OkJson([id |-> args.note_id,
                                            tags |-> notes.tags[args.note_id]])
                               ELSE ErrJson(NotFound)))
  /\ [][op' = "get_note" => (notes' = notes /\ base_url' = base_url)]_vars

C9_Witness ==
  /\ op = "get_note" /\ Answered /\ wire.fault = NoFault
  /\ args.note_id = 2 /\ notes.count = 2 /\ notes.tags[2] = {"user", "ai"}
  /\ result.value.success
  /\ result.value.data = [id |-> 2, tags |-> {"user", "ai"}]

\* the service answered the last request with success:false and message m
RemoteError(m) ==
  /\ op \in FacadeOps \cup {"auto_tag_notes"}
  /\ wire.kind = "response" /\ wire.body = "json"
  /\ \/ wire.fault # NoFault /\ m = wire.fault
     \/ /\ wire.fault = NoFault /\ m = NotFound
        /\ op \in {"get_note", "suggest_tags"}
        /\ args.note_id \notin 1..notes.count

RemoteMessages == RemoteFaults \cup {NotFound}

\* C10 (as stated): a success:false answer of the service is returned
\* with success false and the service's error message, whatever the HTTP
\* status of the answer.
C10_PassedThrough ==
  \A m \in RemoteMessages :
    RemoteError(m) => result = Returned(ErrJson(m))

\* C10 (amended): a success:false answer of the service is returned with
\* success false for every HTTP status; the error is the service's message
\* when the status is not 4xx/5xx, and the HTTP status diagnostic (the
\* service's message is dropped) when it is.
C10_PassedThroughBelow400 ==
  \A m \in RemoteMessages :
    RemoteError(m) =>
      /\ result.raised = ""
      /\ result.value.success = FALSE
      /\ wire.status < 400 => result = Returned(ErrJson(m))
      /\ wire.status >= 400 =>
           /\ result.value.error # m
           /\ result.value.error[1] = ToString(wire.status)

C10_Witness ==
  /\ op = "get_note" /\ args.note_id \notin 1..notes.count
  /\ wire.kind = "response" /\ wire.body = "json" /\ wire.fault = NoFault
  /\ wire.status = 300
  /\ result = Returned(ErrJson(NotFound))

====
